---- MODULE Spec2Model ----
(***************************************************************************)
(* Model of the feature-store setup runner:                                *)
(*   scripts/setup_feature_store.py   FeatureStoreSetup and main()         *)
(*   scripts/snowflake_connection.py  SnowflakeConnection                  *)
(* Text is a sequence of one-character strings, so that the string         *)
(* operations of the source (find, slicing, strip, upper, startswith,      *)
(* endswith, count, join) are computed and not assumed.                    *)
(***************************************************************************)
EXTENDS Integers, Sequences, FiniteSets, TLC

(***************************************************************************)
(* Bounds of the model.                                                    *)
(***************************************************************************)
\* Lines of the script file when execute_setup is called directly.
MaxLines == 4
\* Lines of the script file when the run starts at the entry point main().
MaxMainLines == 2
\* Lines of the raw script when split_sql_statements is called directly.
MaxScriptLines == 3

(***************************************************************************)
(* Python string operations.                                               *)
(***************************************************************************)
None == "None"

\* The exit code of a process that has not ended: exit codes are numbers, and
\* this one is none that sys.exit() or the end of main() produces.
NoExit == -1

\* A local that holds no dict yet.
NoReport == <<>>

\* str.find(sub): 0-based index of the first occurrence, -1 when absent.
find(s, sub) ==
  LET hits == { k \in 0..(Len(s) - Len(sub)) : SubSeq(s, k + 1, k + Len(sub)) = sub }
  IN  IF hits = {} THEN -1 ELSE CHOOSE k \in hits : \A j \in hits : k <= j

\* sub in s
contains(s, sub) == find(s, sub) # -1

\* s[:n] and s[n:] for 0 <= n
prefix(s, n) == SubSeq(s, 1, IF n > Len(s) THEN Len(s) ELSE n)
suffix(s, n) == SubSeq(s, n + 1, Len(s))

\* The characters str.strip() removes that can occur inside a line.
Whitespace == {" ", "\t", "\r"}

RECURSIVE lstrip(_)
lstrip(s) ==
  IF s # <<>> /\ Head(s) \in Whitespace THEN lstrip(Tail(s)) ELSE s

RECURSIVE rstrip(_)
rstrip(s) ==
  IF s # <<>> /\ s[Len(s)] \in Whitespace THEN rstrip(SubSeq(s, 1, Len(s) - 1)) ELSE s

strip(s) == lstrip(rstrip(s))

\* str.rstrip(';')
RECURSIVE rstrip_semicolon(_)
rstrip_semicolon(s) ==
  IF s # <<>> /\ s[Len(s)] = ";" THEN rstrip_semicolon(SubSeq(s, 1, Len(s) - 1)) ELSE s

startswith(s, p) == Len(s) >= Len(p) /\ SubSeq(s, 1, Len(p)) = p
endswith(s, p) == Len(s) >= Len(p) /\ SubSeq(s, Len(s) - Len(p) + 1, Len(s)) = p

\* str.count(c) for a single character
count(s, c) == Cardinality({ k \in 1..Len(s) : s[k] = c })

LowerCase == <<"a","b","c","d","e","f","g","h","i","j","k","l","m",
               "n","o","p","q","r","s","t","u","v","w","x","y","z">>
UpperCase == <<"A","B","C","D","E","F","G","H","I","J","K","L","M",
               "N","O","P","Q","R","S","T","U","V","W","X","Y","Z">>

upper_char(c) ==
  IF \E k \in 1..26 : LowerCase[k] = c
    THEN UpperCase[CHOOSE k \in 1..26 : LowerCase[k] = c]
    ELSE c

\* str.upper()
upper(s) == [k \in 1..Len(s) |-> upper_char(s[k])]

\* ' '.join(parts)
RECURSIVE join_space(_)
join_space(parts) ==
  IF parts = <<>> THEN <<>>
  ELSE IF Len(parts) = 1 THEN parts[1]
  ELSE parts[1] \o <<" ">> \o join_space(Tail(parts))

\* str.split('\n'): always at least one piece
RECURSIVE split_newline(_)
split_newline(s) ==
  LET p == find(s, <<"\n">>)
  IN  IF p = -1 THEN <<s>>
      ELSE <<prefix(s, p)>> \o split_newline(suffix(s, p + 1))

(***************************************************************************)
(* FeatureStoreSetup.split_sql_statements                                  *)
(***************************************************************************)
BlockOpen == <<"/", "*">>
BlockClose == <<"*", "/">>
LineComment == <<"-", "-">>

\* Mutant: a line inside a block comment is handed on as an empty line.
strip_block_line_KeepBlank(line0, in0) ==
  LET opened == contains(line0, BlockOpen)
      same   == opened /\ contains(line0, BlockClose)
      line1  == IF same
                  THEN prefix(line0, find(line0, BlockOpen))
                         \o suffix(line0, find(line0, BlockClose) + 2)
                ELSE IF opened
                  THEN prefix(line0, find(line0, BlockOpen))
                ELSE line0
      in1    == IF opened /\ ~same THEN TRUE ELSE in0
  IN  IF in1
        THEN IF contains(line1, BlockClose)
               THEN [keep |-> TRUE, line |-> suffix(line1, find(line1, BlockClose) + 2),
                     in_block_comment |-> FALSE]
               ELSE [keep |-> TRUE, line |-> <<>>, in_block_comment |-> TRUE]
        ELSE [keep |-> TRUE, line |-> line1, in_block_comment |-> FALSE]

\* One iteration of the block-comment loop: the line kept (or None when the
\* loop continues without appending) and the new in_block_comment.
strip_block_line(line0, in0) ==
  LET opened == contains(line0, BlockOpen)
      same   == opened /\ contains(line0, BlockClose)
      line1  == IF same
                  THEN prefix(line0, find(line0, BlockOpen))
                         \o suffix(line0, find(line0, BlockClose) + 2)
                ELSE IF opened
                  THEN prefix(line0, find(line0, BlockOpen))
                ELSE line0
      in1    == IF opened /\ ~same THEN TRUE ELSE in0
  IN  IF in1
        THEN IF contains(line1, BlockClose)
               THEN [keep |-> TRUE, line |-> suffix(line1, find(line1, BlockClose) + 2),
                     in_block_comment |-> FALSE]
               ELSE [keep |-> FALSE, line |-> <<>>, in_block_comment |-> TRUE]
        ELSE [keep |-> TRUE, line |-> line1, in_block_comment |-> FALSE]

\* The first loop: the list `lines` built from the raw lines.
RECURSIVE strip_block_comments(_, _)
strip_block_comments(raw, in0) ==
  IF raw = <<>> THEN <<>>
  ELSE LET r == strip_block_line(Head(raw), in0)
       IN  (IF r.keep THEN <<r.line>> ELSE <<>>)
             \o strip_block_comments(Tail(raw), r.in_block_comment)

\* Removal of an inline comment from one line.
strip_line_comment(line) ==
  IF contains(line, LineComment)
    THEN LET before_comment == prefix(line, find(line, LineComment))
         IN  IF count(before_comment, "'") % 2 = 0 THEN before_comment ELSE line
    ELSE line

\* Mutant: a line holding a semicolon anywhere ends the statement.
RECURSIVE assemble_AnySemicolon(_, _, _)
assemble_AnySemicolon(lines, statements, current_statement) ==
  IF lines = <<>>
    THEN LET statement == strip(join_space(current_statement))
         IN  IF current_statement # <<>> /\ statement # <<>> /\ ~endswith(statement, <<";">>)
               THEN Append(statements, statement)
               ELSE statements
  ELSE LET stripped == strip(strip_line_comment(Head(lines)))
       IN  IF stripped = <<>>
             THEN assemble_AnySemicolon(Tail(lines), statements, current_statement)
           ELSE IF contains(stripped, <<";">>)
             THEN LET statement ==
                        strip(rstrip_semicolon(join_space(Append(current_statement, stripped))))
                  IN  assemble_AnySemicolon(Tail(lines),
                               IF statement # <<>> THEN Append(statements, statement)
                                                   ELSE statements,
                               <<>>)
           ELSE assemble_AnySemicolon(Tail(lines), statements,
                                      Append(current_statement, stripped))

\* Mutant: what is buffered at the end of the script is not emitted.
RECURSIVE assemble_DropTrailing(_, _, _)
assemble_DropTrailing(lines, statements, current_statement) ==
  IF lines = <<>>
    THEN statements
  ELSE LET stripped == strip(strip_line_comment(Head(lines)))
       IN  IF stripped = <<>>
             THEN assemble_DropTrailing(Tail(lines), statements, current_statement)
           ELSE IF endswith(stripped, <<";">>)
             THEN LET statement ==
                        strip(rstrip_semicolon(join_space(Append(current_statement, stripped))))
                  IN  assemble_DropTrailing(Tail(lines),
                               IF statement # <<>> THEN Append(statements, statement)
                                                   ELSE statements,
                               <<>>)
           ELSE assemble_DropTrailing(Tail(lines), statements,
                                      Append(current_statement, stripped))

\* The second loop: statements emitted so far and the current buffer.
RECURSIVE assemble(_, _, _)
assemble(lines, statements, current_statement) ==
  IF lines = <<>>
    THEN LET statement == strip(join_space(current_statement))
         IN  IF current_statement # <<>> /\ statement # <<>> /\ ~endswith(statement, <<";">>)
               THEN Append(statements, statement)
               ELSE statements
  ELSE LET stripped == strip(strip_line_comment(Head(lines)))
       IN  IF stripped = <<>>
             THEN assemble(Tail(lines), statements, current_statement)
           ELSE IF endswith(stripped, <<";">>)
             THEN LET statement ==
                        strip(rstrip_semicolon(join_space(Append(current_statement, stripped))))
                  IN  assemble(Tail(lines),
                               IF statement # <<>> THEN Append(statements, statement)
                                                   ELSE statements,
                               <<>>)
           ELSE assemble(Tail(lines), statements, Append(current_statement, stripped))

split_sql_statements(sql_content) ==
  assemble(strip_block_comments(split_newline(sql_content), FALSE), <<>>, <<>>)

(***************************************************************************)
(* Texts the program compares against, and the inputs of the model.        *)
(***************************************************************************)
SELECT == <<"S","E","L","E","C","T">>
SHOW == <<"S","H","O","W">>
LIMIT == <<"L","I","M","I","T">>
YES == <<"y","e","s">>

\* Lines a script file is made of: a display query in lower case, a query,
\* a SHOW carrying a LIMIT, and an update.
LineDisplay == <<"s","e","l","e","c","t"," ","a"," ","l","i","m","i","t"," ","1",";">>
LineSelect == <<"S","E","L","E","C","T"," ","1",";">>
LineShowLimit == <<"S","H","O","W"," ","T"," ","L","I","M","I","T"," ","1",";">>
LineInsert == <<"I","N","S","E","R","T"," ","t",";">>
LinePool == {LineDisplay, LineSelect, LineShowLimit, LineInsert}

\* '\n'.join(lines)
RECURSIVE join_newline(_)
join_newline(lines) ==
  IF lines = <<>> THEN <<>>
  ELSE IF Len(lines) = 1 THEN lines[1]
  ELSE lines[1] \o <<"\n">> \o join_newline(Tail(lines))

\* The contents the script file can have, up to n lines.
ScriptFiles(n) ==
  { join_newline(ls) : ls \in UNION { [1..m -> LinePool] : m \in 0..n } }

\* Lines a raw script is made of. In them x stands for the text of a line
\* comment and y for the text of a block comment.
\* a statement on one line
RawStatement == <<"a",";">>
\* a line that ends no statement
RawOpen == <<"b">>
\* a blank line
RawBlank == <<>>
\* a line holding a semicolon alone
RawSemicolon == <<";">>
\* a comment line
RawLineComment == <<"-","-"," ","x">>
\* a statement followed by a comment
RawTrailing == <<"c",";"," ","-","-"," ","x">>
\* the marker inside a string literal
RawQuoted == <<"d"," ","'","-","-","'",";">>
\* the marker inside a string literal, then a comment
RawTwoMarkers == <<"e"," ","'","-","-","x","'"," ","-","-"," ","x",";">>
\* a block comment, then a statement
RawBlock == <<"/","*"," ","y"," ","*","/"," ","f",";">>
\* code, then the opening of a block comment
RawBlockOpen == <<"g"," ","/","*","y">>
\* the end of a block comment, then a statement
RawBlockClose == <<"y","*","/"," ","h",";">>
\* two block comments on one line
RawTwoBlocks == <<"i"," ","/","*"," ","y"," ","*","/"," ","/","*"," ","y"," ","*","/",";">>
\* a semicolon in the middle of a line
RawMidSemicolon == <<"j",";"," ","k">>
RawPool ==
  {RawStatement, RawOpen, RawBlank, RawSemicolon, RawLineComment, RawTrailing,
   RawQuoted, RawTwoMarkers, RawBlock, RawBlockOpen, RawBlockClose, RawTwoBlocks, RawMidSemicolon}

\* The raw scripts of up to n lines.
RawScripts(n) ==
  { join_newline(ls) : ls \in UNION { [1..m -> RawPool] : m \in 0..n } }

\* Answers typed at the confirmation prompt.
Answers == { <<"y","e","s">>, <<"Y","E","S">>, <<"n","o">>, <<>> }

LowerOf(c) ==
  IF \E m \in 1..26 : UpperCase[m] = c
    THEN LowerCase[CHOOSE m \in 1..26 : UpperCase[m] = c]
    ELSE c

\* str.lower()
lower(s) == [m \in 1..Len(s) |-> LowerOf(s[m])]

(***************************************************************************)
(* State.                                                                  *)
(***************************************************************************)
VARIABLES
  pc,             \* position of the thread of control
  caller,         \* "main" when the entry point runs, "direct" for a method call
  args,           \* parsed command line: verify_only, drop_existing
  config_exists,  \* os.path.exists(config_path)
  sf,             \* SnowflakeConnection: config, conn, cursor
  leaked,         \* sessions still open that self.conn no longer refers to
  statements,     \* execute_setup: the splitter's output
  i,              \* execute_setup: enumerate index of the statement loop
  j,              \* execute_setup: index into drop_statements
  results,        \* execute_setup: the run report
  calls,          \* every call made on the client, in order
  raisedAt,       \* script statement numbers on which the client raised
  dropRaised,     \* some drop statement raised
  verification,   \* verify_setup: the verification report
  existing,       \* verify_setup: existing_tables / existing_views
  k,              \* verify_setup: index into tables_to_check / views_to_check
  exc,            \* the exception propagating out of execute_setup
  exit_code,      \* the process's exit code once main() has ended
  response,       \* main: the answers read by input(), in order
  sql_content,    \* the text handed to split_sql_statements
  lines           \* split_sql_statements: the lines left by the first loop

vars == <<pc, caller, args, config_exists, sf, leaked, statements, i, j, results,
          calls, raisedAt, dropRaised, verification, existing, k, exc, exit_code,
          response, sql_content, lines>>

(***************************************************************************)
(* SnowflakeConnection                                                     *)
(***************************************************************************)
\* __init__: the config comes from the file when it exists, else from the
\* environment; no error is raised for a missing file.
SnowflakeConnection_init(exists) ==
  [config |-> IF exists THEN "file" ELSE "env", conn |-> None, cursor |-> None]

\* What connect() can do: both objects created ("ok"), connector.connect
\* raising ("connect_raised"), the connection created but cursor() raising
\* ("cursor_raised").
ConnectOutcomes == {"ok", "cursor_raised", "connect_raised"}

connect(s, outcome) ==
  IF outcome = "ok" THEN [s EXCEPT !.conn = "open", !.cursor = "open"]
  ELSE IF outcome = "cursor_raised" THEN [s EXCEPT !.conn = "open"]
  ELSE s

\* connect() returns True only when both objects were created.
connect_returns(outcome) == outcome = "ok"

\* A session that was open and is replaced by a new one stays open.
connect_leaks(s, outcome) ==
  IF outcome # "connect_raised" /\ s.conn = "open" THEN 1 ELSE 0

\* execute_query / execute_update: the outcomes of one call. Without a
\* connection object the call raises before reaching the cursor; without a
\* cursor, or on a closed session, cursor.execute raises.
ExecOutcomes(s) ==
  IF s.conn = "open" /\ s.cursor = "open" THEN {"ok", "raise"} ELSE {"raise"}

close(s) ==
  [s EXCEPT !.cursor = IF @ # None THEN "closed" ELSE @,
            !.conn = IF @ # None THEN "closed" ELSE @]

Call(op, by, q) == [op |-> op, by |-> by, q |-> q]

(***************************************************************************)
(* FeatureStoreSetup.execute_setup                                         *)
(***************************************************************************)
PreviewLen == 60

drop_statements ==
  << <<"DROP VIEW IF EXISTS FEAT_DB.FEAT_SCHEMA.latest_features">>,
     <<"DROP TABLE IF EXISTS FEAT_DB.FEAT_SCHEMA.feature_store">>,
     <<"DROP VIEW IF EXISTS FEAT_DB.FEAT_SCHEMA.customer_agg_30d">>,
     <<"DROP TABLE IF EXISTS FEAT_DB.FEAT_SCHEMA.tx_cleaned">>,
     <<"DROP TABLE IF EXISTS FEAT_DB.FEAT_SCHEMA.customer_transactions">>,
     <<"DROP SCHEMA IF EXISTS FEAT_DB.FEAT_SCHEMA">>,
     <<"DROP DATABASE IF EXISTS FEAT_DB">> >>
NumDrops == Len(drop_statements)

\* Mutant: every query with a LIMIT, SHOW included, is taken for display.
display_only_AnyQuery(statement) ==
  /\ \/ startswith(upper(strip(statement)), SELECT)
     \/ startswith(upper(strip(statement)), SHOW)
  /\ contains(upper(statement), LIMIT)

\* The test of line 185: a leading SELECT and LIMIT anywhere in the text.
display_only(statement) ==
  startswith(upper(strip(statement)), SELECT) /\ contains(upper(statement), LIMIT)

\* Mutant: only a leading SELECT makes a query.
is_query_SelectOnly(statement) ==
  startswith(upper(strip(statement)), SELECT)

\* The test of line 208.
is_query(statement) ==
  LET stmt_upper == upper(strip(statement))
  IN  startswith(stmt_upper, SELECT) \/ startswith(stmt_upper, SHOW)

\* The client operation a script statement goes through.
client_op(statement) ==
  IF display_only(statement) \/ is_query(statement)
    THEN "execute_query" ELSE "execute_update"

statement_preview(statement) ==
  LET cut == [m \in 1..Len(prefix(statement, PreviewLen)) |->
                IF statement[m] = "\n" THEN " " ELSE statement[m]]
  IN  IF Len(statement) > PreviewLen THEN cut \o <<".", ".", ".">> ELSE cut

new_results(stmts) ==
  [total_statements |-> Len(stmts), successful |-> 0, failed |-> 0, errors |-> <<>>]

\* Mutant: display queries are counted like every other statement.
record_outcome_CountDisplay(res, n, statement, outcome) ==
  IF outcome = "ok" THEN [res EXCEPT !.successful = @ + 1]
  ELSE [res EXCEPT !.failed = @ + 1,
                   !.errors = Append(@, [statement_number |-> n,
                                         statement |-> statement_preview(statement)])]

\* Mutant: enumerate(statements) without its start value of 1.
record_outcome_ZeroBased(res, n, statement, outcome) ==
  IF display_only(statement) THEN res
  ELSE IF outcome = "ok" THEN [res EXCEPT !.successful = @ + 1]
  ELSE [res EXCEPT !.failed = @ + 1,
                   !.errors = Append(@, [statement_number |-> n - 1,
                                         statement |-> statement_preview(statement)])]

\* The report after statement n returned ("ok") or raised.
record_outcome(res, n, statement, outcome) ==
  IF display_only(statement) THEN res
  ELSE IF outcome = "ok" THEN [res EXCEPT !.successful = @ + 1]
  ELSE [res EXCEPT !.failed = @ + 1,
                   !.errors = Append(@, [statement_number |-> n,
                                         statement |-> statement_preview(statement)])]

\* Lines 129-133: connect, or raise when connect() returns False.
ES_Connect ==
  /\ pc = "es_connect"
  /\ \E outcome \in ConnectOutcomes :
       /\ sf' = connect(sf, outcome)
       /\ leaked' = leaked + connect_leaks(sf, outcome)
       /\ calls' = Append(calls, Call("connect", "execute_setup", <<>>))
       /\ IF connect_returns(outcome)
            THEN pc' = "es_read" /\ exc' = exc
            ELSE pc' = "es_raised" /\ exc' = "Exception"
  /\ UNCHANGED <<caller, response, sql_content, lines,
                 args, config_exists, statements, i, j, results, raisedAt,
                 dropRaised, verification, existing, k, exit_code>>

\* Mutant: the handler of lines 140-142 does not close the connection.
ES_Read_NoClose ==
  /\ pc = "es_read"
  /\ \/ /\ exc' = "FileNotFoundError"
        /\ pc' = "es_raised"
        /\ UNCHANGED <<sf, calls, statements, i, j, results, sql_content>>
     \/ \E content \in ScriptFiles(IF caller = "main" THEN MaxMainLines ELSE MaxLines) :
          /\ sql_content' = content
          /\ statements' = split_sql_statements(content)
          /\ IF args.drop_existing
               THEN /\ j' = 1
                    /\ pc' = "es_drop"
                    /\ UNCHANGED <<i, results>>
               ELSE /\ results' = new_results(statements')
                    /\ i' = 1
                    /\ pc' = "es_loop"
                    /\ j' = j
          /\ UNCHANGED <<sf, calls, exc>>
  /\ UNCHANGED <<caller, response, lines,
                 args, config_exists, leaked, raisedAt, dropRaised,
                 verification, existing, k, exit_code>>

\* Lines 135-147 and, without drop_existing, 176-181: read the file and split
\* it; a missing file closes the connection and raises.
ES_Read ==
  /\ pc = "es_read"
  /\ \/ /\ sf' = close(sf)
        /\ calls' = Append(calls, Call("close", "execute_setup", <<>>))
        /\ exc' = "FileNotFoundError"
        /\ pc' = "es_raised"
        /\ UNCHANGED <<statements, i, j, results, sql_content>>
     \/ \E content \in ScriptFiles(IF caller = "main" THEN MaxMainLines ELSE MaxLines) :
          /\ sql_content' = content
          /\ statements' = split_sql_statements(content)
          /\ IF args.drop_existing
               THEN /\ j' = 1
                    /\ pc' = "es_drop"
                    /\ UNCHANGED <<i, results>>
               ELSE /\ results' = new_results(statements')
                    /\ i' = 1
                    /\ pc' = "es_loop"
                    /\ j' = j
          /\ UNCHANGED <<sf, calls, exc>>
  /\ UNCHANGED <<caller, response, lines,
                 args, config_exists, leaked, raisedAt, dropRaised,
                 verification, existing, k, exit_code>>

\* Mutant: a drop statement that raises ends execute_setup.
ES_Drop_Abort ==
  /\ pc = "es_drop"
  /\ j <= NumDrops
  /\ calls' = Append(calls, Call("execute_update", "drop", drop_statements[j]))
  /\ j' = j + 1
  /\ \E outcome \in ExecOutcomes(sf) :
       /\ dropRaised' = (dropRaised \/ outcome = "raise")
       /\ IF outcome = "raise"
            THEN pc' = "es_raised" /\ exc' = "Exception" /\ UNCHANGED <<results, i>>
            ELSE IF j = NumDrops
              THEN results' = new_results(statements) /\ i' = 1 /\ pc' = "es_loop" /\ exc' = exc
              ELSE UNCHANGED <<results, i, pc, exc>>
  /\ UNCHANGED <<caller, response, sql_content, lines,
                 args, config_exists, sf, leaked, statements, raisedAt,
                 verification, existing, k, exit_code>>

\* Mutant: the drop statements are submitted last to first.
ES_Drop_Reversed ==
  /\ pc = "es_drop"
  /\ j <= NumDrops
  /\ \E outcome \in ExecOutcomes(sf) :
       dropRaised' = (dropRaised \/ outcome = "raise")
  /\ calls' = Append(calls, Call("execute_update", "drop", drop_statements[NumDrops + 1 - j]))
  /\ j' = j + 1
  /\ IF j = NumDrops
       THEN results' = new_results(statements) /\ i' = 1 /\ pc' = "es_loop"
       ELSE UNCHANGED <<results, i, pc>>
  /\ UNCHANGED <<caller, response, sql_content, lines,
                 args, config_exists, sf, leaked, statements, raisedAt,
                 verification, existing, k, exc, exit_code>>

\* Lines 162-167: one drop statement; whatever it does is ignored. After the
\* last one the report is created (lines 176-181).
ES_Drop ==
  /\ pc = "es_drop"
  /\ j <= NumDrops
  /\ \E outcome \in ExecOutcomes(sf) :
       dropRaised' = (dropRaised \/ outcome = "raise")
  /\ calls' = Append(calls, Call("execute_update", "drop", drop_statements[j]))
  /\ j' = j + 1
  /\ IF j = NumDrops
       THEN results' = new_results(statements) /\ i' = 1 /\ pc' = "es_loop"
       ELSE UNCHANGED <<results, i, pc>>
  /\ UNCHANGED <<caller, response, sql_content, lines,
                 args, config_exists, sf, leaked, statements, raisedAt,
                 verification, existing, k, exc, exit_code>>

\* Lines 183-189 and 204-220: statement i is handed to the client.
ES_Submit ==
  /\ pc = "es_loop"
  /\ i <= Len(statements)
  /\ calls' = Append(calls, Call(client_op(statements[i]), "script", statements[i]))
  /\ pc' = "es_wait"
  /\ UNCHANGED <<caller, response, sql_content, lines,
                 args, config_exists, sf, leaked, statements, i, j, results,
                 raisedAt, dropRaised, verification, existing, k, exc, exit_code>>

\* Mutant: the handler of line 225 is missing, a failure leaves execute_setup.
ES_Outcome_Abort ==
  /\ pc = "es_wait"
  /\ \E outcome \in ExecOutcomes(sf) :
       /\ results' = record_outcome(results, i, statements[i], outcome)
       /\ raisedAt' = IF outcome = "raise" THEN raisedAt \cup {i} ELSE raisedAt
       /\ IF outcome = "raise" /\ ~display_only(statements[i])
            THEN pc' = "es_raised" /\ exc' = "Exception" /\ i' = i
            ELSE pc' = "es_loop" /\ exc' = exc /\ i' = i + 1
  /\ UNCHANGED <<caller, response, sql_content, lines,
                 args, config_exists, sf, leaked, statements, j, calls,
                 dropRaised, verification, existing, k, exit_code>>

\* Mutant: after a failure the next statement is passed over.
ES_Outcome_SkipAfterFailure ==
  /\ pc = "es_wait"
  /\ \E outcome \in ExecOutcomes(sf) :
       /\ results' = record_outcome(results, i, statements[i], outcome)
       /\ raisedAt' = IF outcome = "raise" THEN raisedAt \cup {i} ELSE raisedAt
       /\ i' = IF outcome = "raise" THEN i + 2 ELSE i + 1
  /\ pc' = "es_loop"
  /\ UNCHANGED <<caller, response, sql_content, lines,
                 args, config_exists, sf, leaked, statements, j, calls,
                 dropRaised, verification, existing, k, exc, exit_code>>

\* Lines 190-195 and 223-235: the client returns or raises; the report is
\* updated and the loop goes on.
ES_Outcome ==
  /\ pc = "es_wait"
  /\ \E outcome \in ExecOutcomes(sf) :
       /\ results' = record_outcome(results, i, statements[i], outcome)
       /\ raisedAt' = IF outcome = "raise" THEN raisedAt \cup {i} ELSE raisedAt
  /\ i' = i + 1
  /\ pc' = "es_loop"
  /\ UNCHANGED <<caller, response, sql_content, lines,
                 args, config_exists, sf, leaked, statements, j, calls,
                 dropRaised, verification, existing, k, exc, exit_code>>

\* Lines 239-262: the loop is over; the report is returned, the connection
\* is left open.
ES_Return ==
  /\ pc = "es_loop"
  /\ i > Len(statements)
  /\ pc' = "es_returned"
  /\ UNCHANGED <<caller, response, sql_content, lines,
                 args, config_exists, sf, leaked, statements, i, j, results,
                 calls, raisedAt, dropRaised, verification, existing, k, exc, exit_code>>

(***************************************************************************)
(* FeatureStoreSetup.verify_setup                                          *)
(***************************************************************************)
customer_transactions ==
  <<"c","u","s","t","o","m","e","r","_","t","r","a","n","s","a","c","t","i","o","n","s">>
tx_cleaned == <<"t","x","_","c","l","e","a","n","e","d">>
feature_store == <<"f","e","a","t","u","r","e","_","s","t","o","r","e">>
customer_agg_30d == <<"c","u","s","t","o","m","e","r","_","a","g","g","_","3","0","d">>
latest_features == <<"l","a","t","e","s","t","_","f","e","a","t","u","r","e","s">>

tables_to_check == <<customer_transactions, tx_cleaned, feature_store>>
views_to_check == <<customer_agg_30d, latest_features>>

\* The objects a view or table is built from, as the statements that create
\* them say: customer_agg_30d selects from tx_cleaned, and tx_cleaned is
\* filled from customer_transactions.
reads_from ==
  { <<"customer_agg_30d", "tx_cleaned">>, <<"tx_cleaned", "customer_transactions">> }

\* Names a SHOW TABLES / SHOW VIEWS listing can hold: the manifest's objects
\* as the catalog spells them, and one object outside the manifest.
CatalogTables ==
  { <<"C","U","S","T","O","M","E","R","_","T","R","A","N","S","A","C","T","I","O","N","S">>,
    <<"T","X","_","C","L","E","A","N","E","D">>,
    <<"F","e","a","t","u","r","e","_","S","t","o","r","e">>,
    <<"O","T","H","E","R","_","T">> }
CatalogViews ==
  { <<"C","U","S","T","O","M","E","R","_","A","G","G","_","3","0","D">>,
    <<"L","A","T","E","S","T","_","F","E","A","T","U","R","E","S">>,
    <<"O","T","H","E","R","_","V">> }

\* Values a COUNT(*) query can return.
CountValues == {0, 5}

\* The results the client is given to return. A run started at the entry
\* point goes through the whole of execute_setup first, so it is given fewer
\* listings and counts than a direct call of verify_setup: nothing or
\* everything listed, and one count.
Listings(catalog, c) ==
  IF c = "main" THEN {{}, catalog} ELSE SUBSET catalog
Counts(c) ==
  IF c = "main" THEN {5} ELSE CountValues

new_verification ==
  [database_exists |-> FALSE, schema_exists |-> FALSE,
   tables |-> <<>>, views |-> <<>>, data_counts |-> <<>>]

\* d[key] = value on a dict
Put(d, key, value) ==
  [x \in DOMAIN d \cup {key} |-> IF x = key THEN value ELSE d[x]]

\* What a catalog check can come to: the query raising, or its result
\* holding the name looked for or not.
CheckOutcomes(s) ==
  IF "ok" \in ExecOutcomes(s) THEN {"raise", "found", "absent"} ELSE {"raise"}

count_query(name) == <<"SELECT COUNT(*) AS cnt FROM FEAT_DB.FEAT_SCHEMA.", name>>

\* Lines 275-286: reconnect when conn or cursor is unset; the result of
\* connect() is not looked at.
VS_Start ==
  /\ pc = "vs_start"
  /\ IF sf.conn = None \/ sf.cursor = None
       THEN \E outcome \in ConnectOutcomes :
              /\ sf' = connect(sf, outcome)
              /\ leaked' = leaked + connect_leaks(sf, outcome)
              /\ calls' = Append(calls, Call("connect", "verify_setup", <<>>))
       ELSE UNCHANGED <<sf, leaked, calls>>
  /\ verification' = new_verification
  /\ pc' = "vs_db"
  /\ UNCHANGED <<caller, response, sql_content, lines,
                 args, config_exists, statements, i, j, results, raisedAt,
                 dropRaised, existing, k, exc, exit_code>>

\* Lines 289-297.
VS_Database ==
  /\ pc = "vs_db"
  /\ \E outcome \in CheckOutcomes(sf) :
       verification' = IF outcome = "raise" THEN verification
                       ELSE [verification EXCEPT !.database_exists = (outcome = "found")]
  /\ calls' = Append(calls, Call("execute_query", "verify", <<"SHOW DATABASES">>))
  /\ pc' = "vs_schema"
  /\ UNCHANGED <<caller, response, sql_content, lines,
                 args, config_exists, sf, leaked, statements, i, j, results,
                 raisedAt, dropRaised, existing, k, exc, exit_code>>

\* Lines 299-307.
VS_Schema ==
  /\ pc = "vs_schema"
  /\ \E outcome \in CheckOutcomes(sf) :
       verification' = IF outcome = "raise" THEN verification
                       ELSE [verification EXCEPT !.schema_exists = (outcome = "found")]
  /\ calls' = Append(calls,
                     Call("execute_query", "verify", <<"SHOW SCHEMAS IN DATABASE FEAT_DB">>))
  /\ pc' = "vs_tables"
  /\ UNCHANGED <<caller, response, sql_content, lines,
                 args, config_exists, sf, leaked, statements, i, j, results,
                 raisedAt, dropRaised, existing, k, exc, exit_code>>

\* Mutant: a table listing that raises ends the verification.
VS_Tables_Abort ==
  /\ pc = "vs_tables"
  /\ calls' = Append(calls, Call("execute_query", "verify",
                                 <<"SHOW TABLES IN SCHEMA FEAT_DB.FEAT_SCHEMA">>))
  /\ \E outcome \in ExecOutcomes(sf) :
       IF outcome = "raise"
         THEN pc' = "vs_finally" /\ UNCHANGED <<existing, k>>
         ELSE \E listing \in Listings(CatalogTables, caller) :
                /\ existing' = { upper(n) : n \in listing }
                /\ k' = 1
                /\ pc' = "vs_table"
  /\ UNCHANGED <<caller, response, sql_content, lines,
                 args, config_exists, sf, leaked, statements, i, j, results,
                 raisedAt, dropRaised, verification, exc, exit_code>>

\* Lines 310-313 and 327-328: the listing of tables; when it raises the
\* whole table check is over.
VS_Tables ==
  /\ pc = "vs_tables"
  /\ calls' = Append(calls, Call("execute_query", "verify",
                                 <<"SHOW TABLES IN SCHEMA FEAT_DB.FEAT_SCHEMA">>))
  /\ \E outcome \in ExecOutcomes(sf) :
       IF outcome = "raise"
         THEN pc' = "vs_views" /\ UNCHANGED <<existing, k>>
         ELSE \E listing \in Listings(CatalogTables, caller) :
                /\ existing' = { upper(n) : n \in listing }
                /\ k' = 1
                /\ pc' = "vs_table"
  /\ UNCHANGED <<caller, response, sql_content, lines,
                 args, config_exists, sf, leaked, statements, i, j, results,
                 raisedAt, dropRaised, verification, exc, exit_code>>

\* Lines 315-328: one table of the manifest. A count query that raises leaves
\* the loop through the handler of line 327.
VS_Table ==
  /\ pc = "vs_table"
  /\ k <= Len(tables_to_check)
  /\ LET table == tables_to_check[k]
         exists == upper(table) \in existing
         marked == [verification EXCEPT !.tables = Put(@, table, exists)]
     IN  IF exists
           THEN /\ calls' = Append(calls, Call("execute_query", "verify", count_query(table)))
                /\ \E outcome \in ExecOutcomes(sf) :
                     IF outcome = "raise"
                       THEN /\ verification' = marked
                            /\ existing' = {}
                            /\ k' = 0
                            /\ pc' = "vs_views"
                       ELSE \E cnt \in Counts(caller) :
                              /\ verification' =
                                   [marked EXCEPT !.data_counts = Put(@, table, cnt)]
                              /\ UNCHANGED existing
                              /\ k' = k + 1
                              /\ pc' = pc
           ELSE /\ verification' = marked
                /\ k' = k + 1
                /\ UNCHANGED <<calls, existing, pc>>
  /\ UNCHANGED <<caller, response, sql_content, lines,
                 args, config_exists, sf, leaked, statements, i, j, results,
                 raisedAt, dropRaised, exc, exit_code>>

\* The table loop is over.
VS_TablesDone ==
  /\ pc = "vs_table"
  /\ k > Len(tables_to_check)
  /\ existing' = {}
  /\ k' = 0
  /\ pc' = "vs_views"
  /\ UNCHANGED <<caller, response, sql_content, lines,
                 args, config_exists, sf, leaked, statements, i, j, results,
                 calls, raisedAt, dropRaised, verification, exc, exit_code>>

\* Lines 331-334 and 348-349: the listing of views.
VS_Views ==
  /\ pc = "vs_views"
  /\ calls' = Append(calls, Call("execute_query", "verify",
                                 <<"SHOW VIEWS IN SCHEMA FEAT_DB.FEAT_SCHEMA">>))
  /\ \E outcome \in ExecOutcomes(sf) :
       IF outcome = "raise"
         THEN pc' = "vs_finally" /\ UNCHANGED <<existing, k>>
         ELSE \E listing \in Listings(CatalogViews, caller) :
                /\ existing' = { upper(n) : n \in listing }
                /\ k' = 1
                /\ pc' = "vs_view"
  /\ UNCHANGED <<caller, response, sql_content, lines,
                 args, config_exists, sf, leaked, statements, i, j, results,
                 raisedAt, dropRaised, verification, exc, exit_code>>

\* Lines 336-349: one view of the manifest.
VS_View ==
  /\ pc = "vs_view"
  /\ k <= Len(views_to_check)
  /\ LET view == views_to_check[k]
         exists == upper(view) \in existing
         marked == [verification EXCEPT !.views = Put(@, view, exists)]
     IN  IF exists
           THEN /\ calls' = Append(calls, Call("execute_query", "verify", count_query(view)))
                /\ \E outcome \in ExecOutcomes(sf) :
                     IF outcome = "raise"
                       THEN /\ verification' = marked
                            /\ existing' = {}
                            /\ k' = 0
                            /\ pc' = "vs_finally"
                       ELSE \E cnt \in Counts(caller) :
                              /\ verification' =
                                   [marked EXCEPT !.data_counts = Put(@, view, cnt)]
                              /\ UNCHANGED existing
                              /\ k' = k + 1
                              /\ pc' = pc
           ELSE /\ verification' = marked
                /\ k' = k + 1
                /\ UNCHANGED <<calls, existing, pc>>
  /\ UNCHANGED <<caller, response, sql_content, lines,
                 args, config_exists, sf, leaked, statements, i, j, results,
                 raisedAt, dropRaised, exc, exit_code>>

\* The view loop is over.
VS_ViewsDone ==
  /\ pc = "vs_view"
  /\ k > Len(views_to_check)
  /\ existing' = {}
  /\ k' = 0
  /\ pc' = "vs_finally"
  /\ UNCHANGED <<caller, response, sql_content, lines,
                 args, config_exists, sf, leaked, statements, i, j, results,
                 calls, raisedAt, dropRaised, verification, exc, exit_code>>

\* Lines 353-358: close the connection when there is one, return the report.
VS_Finally ==
  /\ pc = "vs_finally"
  /\ IF sf.conn # None
       THEN /\ sf' = close(sf)
            /\ calls' = Append(calls, Call("close", "verify_setup", <<>>))
       ELSE UNCHANGED <<sf, calls>>
  /\ pc' = "vs_returned"
  /\ UNCHANGED <<caller, response, sql_content, lines,
                 args, config_exists, leaked, statements, i, j, results,
                 raisedAt, dropRaised, verification, existing, k, exc, exit_code>>

(***************************************************************************)
(* FeatureStoreSetup.split_sql_statements, step by step                    *)
(***************************************************************************)
\* Lines 49-75: the first loop, which takes the block comments out.
SP_Blocks ==
  /\ pc = "split_call"
  /\ lines' = strip_block_comments(split_newline(sql_content), FALSE)
  /\ pc' = "split_lines"
  /\ UNCHANGED <<caller, response, sql_content, args, config_exists, sf, leaked, statements,
                 i, j, results, calls, raisedAt, dropRaised, verification, existing, k,
                 exc, exit_code>>

\* Lines 77-112: the second loop, which takes the line comments out and
\* cuts the statements at the semicolons.
SP_Statements ==
  /\ pc = "split_lines"
  /\ statements' = assemble(lines, <<>>, <<>>)
  /\ pc' = "split_done"
  /\ UNCHANGED <<caller, response, sql_content, lines,
                 args, config_exists, sf, leaked,
                 i, j, results, calls, raisedAt, dropRaised, verification, existing, k,
                 exc, exit_code>>

(***************************************************************************)
(* main()                                                                  *)
(***************************************************************************)
\* Mutant: --verify-only is not looked at.
Main_Start_IgnoreVerifyOnly ==
  /\ pc = "main"
  /\ sf' = SnowflakeConnection_init(config_exists)
  /\ pc' = IF args.drop_existing THEN "main_confirm" ELSE "es_connect"
  /\ UNCHANGED <<caller, response, sql_content, lines,
                 args, config_exists, leaked, statements, i, j, results, calls,
                 raisedAt, dropRaised, verification, existing, k, exc, exit_code>>

\* Lines 394-404: construct the setup object and branch on the flags.
Main_Start ==
  /\ pc = "main"
  /\ sf' = SnowflakeConnection_init(config_exists)
  /\ pc' = IF args.verify_only THEN "vs_start"
           ELSE IF args.drop_existing THEN "main_confirm"
           ELSE "es_connect"
  /\ UNCHANGED <<caller, response, sql_content, lines,
                 args, config_exists, leaked, statements, i, j, results, calls,
                 raisedAt, dropRaised, verification, existing, k, exc, exit_code>>

\* Mutant: the answer is read and the run goes on whatever it is.
Main_Confirm_AnyAnswer ==
  /\ pc = "main_confirm"
  /\ \E answer \in Answers : response' = Append(response, answer)
  /\ pc' = "es_connect"
  /\ UNCHANGED <<caller, sql_content, lines,
                 args, config_exists, sf, leaked, statements, i, j, results,
                 calls, raisedAt, dropRaised, verification, existing, k, exc, exit_code>>

\* Lines 405-411: the confirmation prompt.
Main_Confirm ==
  /\ pc = "main_confirm"
  /\ \E answer \in Answers :
       /\ response' = Append(response, answer)
       /\ IF lower(answer) # YES
            THEN pc' = "exited" /\ exit_code' = 0
            ELSE pc' = "es_connect" /\ exit_code' = exit_code
  /\ UNCHANGED <<caller, sql_content, lines,
                 args, config_exists, sf, leaked, statements, i, j, results,
                 calls, raisedAt, dropRaised, verification, existing, k, exc>>

\* Mutant: verification runs whatever the report says.
Main_AfterSetup_AlwaysVerify ==
  /\ pc = "es_returned"
  /\ caller = "main"
  /\ pc' = "vs_start"
  /\ UNCHANGED <<caller, response, sql_content, lines,
                 args, config_exists, sf, leaked, statements, i, j, results,
                 calls, raisedAt, dropRaised, verification, existing, k, exc, exit_code>>

\* Mutant: the else branch of lines 418-420 is missing.
Main_AfterSetup_NoClose ==
  /\ pc = "es_returned"
  /\ caller = "main"
  /\ IF results.failed = 0
       THEN pc' = "vs_start" /\ exit_code' = exit_code
       ELSE pc' = "exited" /\ exit_code' = 0
  /\ UNCHANGED <<caller, response, sql_content, lines,
                 args, config_exists, sf, leaked, statements, i, j, results,
                 calls, raisedAt, dropRaised, verification, existing, k, exc>>

\* Mutant: a report with failures ends the process with exit code 1.
Main_AfterSetup_ExitOnFailure ==
  /\ pc = "es_returned"
  /\ caller = "main"
  /\ IF results.failed = 0
       THEN /\ pc' = "vs_start"
            /\ UNCHANGED <<sf, calls, exit_code>>
       ELSE /\ sf' = close(sf)
            /\ calls' = Append(calls, Call("close", "main", <<>>))
            /\ pc' = "exited"
            /\ exit_code' = 1
  /\ UNCHANGED <<caller, response, sql_content, lines,
                 args, config_exists, leaked, statements, i, j, results,
                 raisedAt, dropRaised, verification, existing, k, exc>>

\* Lines 413-420: verify when nothing failed, else close the connection.
Main_AfterSetup ==
  /\ pc = "es_returned"
  /\ caller = "main"
  /\ IF results.failed = 0
       THEN /\ pc' = "vs_start"
            /\ UNCHANGED <<sf, calls, exit_code>>
       ELSE /\ sf' = close(sf)
            /\ calls' = Append(calls, Call("close", "main", <<>>))
            /\ pc' = "exited"
            /\ exit_code' = 0
  /\ UNCHANGED <<caller, response, sql_content, lines,
                 args, config_exists, leaked, statements, i, j, results,
                 raisedAt, dropRaised, verification, existing, k, exc>>

\* Mutant: after the verification the setup is run again.
Main_AfterVerify_Restart ==
  /\ pc = "vs_returned"
  /\ caller = "main"
  /\ pc' = IF args.verify_only THEN "exited" ELSE "es_connect"
  /\ exit_code' = IF args.verify_only THEN 0 ELSE exit_code
  /\ UNCHANGED <<caller, response, sql_content, lines,
                 args, config_exists, sf, leaked, statements, i, j, results,
                 calls, raisedAt, dropRaised, verification, existing, k, exc>>

\* Lines 399-402 and the fall off the end of main(): verification returned.
Main_AfterVerify ==
  /\ pc = "vs_returned"
  /\ caller = "main"
  /\ pc' = "exited"
  /\ exit_code' = 0
  /\ UNCHANGED <<caller, response, sql_content, lines,
                 args, config_exists, sf, leaked, statements, i, j, results,
                 calls, raisedAt, dropRaised, verification, existing, k, exc>>

\* Lines 422-441: both handlers end in sys.exit(1).
Main_Except ==
  /\ pc = "es_raised"
  /\ caller = "main"
  /\ pc' = "exited"
  /\ exit_code' = 1
  /\ UNCHANGED <<caller, response, sql_content, lines,
                 args, config_exists, sf, leaked, statements, i, j, results,
                 calls, raisedAt, dropRaised, verification, existing, k, exc>>

(***************************************************************************)
(* Specifications.                                                         *)
(***************************************************************************)
Fresh ==
  /\ leaked = 0
  /\ statements = <<>>
  /\ i = 0
  /\ j = 0
  /\ results = NoReport
  /\ calls = <<>>
  /\ raisedAt = {}
  /\ dropRaised = FALSE
  /\ verification = NoReport
  /\ existing = {}
  /\ k = 0
  /\ exc = None
  /\ exit_code = NoExit
  /\ response = <<>>
  /\ lines = <<>>

\* The entry point: python setup_feature_store.py [flags].
Init ==
  /\ pc = "main"
  /\ caller = "main"
  /\ args \in [verify_only : BOOLEAN, drop_existing : BOOLEAN]
  /\ config_exists \in BOOLEAN
  /\ sf = [config |-> None, conn |-> None, cursor |-> None]
  /\ sql_content = <<>>
  /\ Fresh

Setup ==
  ES_Connect \/ ES_Read \/ ES_Drop \/ ES_Submit \/ ES_Outcome \/ ES_Return

Verify ==
  \/ VS_Start \/ VS_Database \/ VS_Schema
  \/ VS_Tables \/ VS_Table \/ VS_TablesDone
  \/ VS_Views \/ VS_View \/ VS_ViewsDone
  \/ VS_Finally

Next ==
  \/ Main_Start \/ Main_Confirm \/ Main_AfterSetup \/ Main_AfterVerify \/ Main_Except
  \/ Setup
  \/ Verify

Spec == Init /\ [][Next]_vars

\* Where the thread of control is: its position and its loop indices. Every
\* step changes it.
position == <<pc, i, j, k>>

\* The entry point when every call on the client returns or raises: a step
\* that can be taken is taken.
SpecLive == Init /\ [][Next]_vars /\ WF_position(Next)

\* execute_setup(drop_existing) called on a FeatureStoreSetup newly constructed
\* from an existing config file.
InitExec ==
  /\ pc = "es_connect"
  /\ caller = "direct"
  /\ args \in [verify_only : {FALSE}, drop_existing : BOOLEAN]
  /\ config_exists = TRUE
  /\ sf = SnowflakeConnection_init(config_exists)
  /\ sql_content = <<>>
  /\ Fresh

SpecExec == InitExec /\ [][Setup]_vars

\* verify_setup() called on a FeatureStoreSetup that is newly constructed, or
\* holds an open connection, or has had close() called on its connection.
InitVerify ==
  /\ pc = "vs_start"
  /\ caller = "direct"
  /\ args = [verify_only |-> FALSE, drop_existing |-> FALSE]
  /\ config_exists = TRUE
  /\ sf \in { SnowflakeConnection_init(config_exists),
              connect(SnowflakeConnection_init(config_exists), "ok"),
              close(connect(SnowflakeConnection_init(config_exists), "ok")) }
  /\ sql_content = <<>>
  /\ Fresh

SpecVerify == InitVerify /\ [][Verify]_vars

\* split_sql_statements(sql_content) called on a FeatureStoreSetup.
InitSplit ==
  /\ pc = "split_call"
  /\ caller = "direct"
  /\ args = [verify_only |-> FALSE, drop_existing |-> FALSE]
  /\ config_exists = TRUE
  /\ sf = SnowflakeConnection_init(config_exists)
  /\ sql_content \in RawScripts(MaxScriptLines)
  /\ Fresh

Split == SP_Blocks \/ SP_Statements

SpecSplit == InitSplit /\ [][Split]_vars

(***************************************************************************)
(* Properties of execute_setup, checked under SpecExec.                    *)
(***************************************************************************)
\* execute_setup has returned its report.
Returned == pc = "es_returned"

\* The calls that carried script statements, in the order they were made.
ScriptCalls == SelectSeq(calls, LAMBDA c : c.by = "script")

\* The statement numbers of the report's error entries, in order.
ErrorNumbers ==
  [e \in 1..Len(results.errors) |-> results.errors[e].statement_number]

ErrorNumberSet == { ErrorNumbers[e] : e \in 1..Len(results.errors) }

\* A statement with a leading SELECT whose text holds LIMIT.
SelectWithLimit(statement) ==
  /\ startswith(upper(strip(statement)), SELECT)
  /\ contains(upper(statement), LIMIT)

\* A statement with a leading SELECT or SHOW whose text holds LIMIT.
QueryWithLimit(statement) ==
  /\ \/ startswith(upper(strip(statement)), SELECT)
     \/ startswith(upper(strip(statement)), SHOW)
  /\ contains(upper(statement), LIMIT)

\* Positions of the statements with a leading SELECT and a LIMIT.
DisplayAt == { n \in 1..Len(statements) : SelectWithLimit(statements[n]) }

\* Statement m has been handed to the client, as the m-th script call.
Submitted(m) == m <= Len(ScriptCalls) /\ ScriptCalls[m].q = statements[m]

\* C1 as stated: the returned report has total_statements = successful +
\* failed, and successful + failed is the number of statements split.
C1_TotalIsSuccessfulPlusFailed ==
  Returned =>
    /\ results.total_statements = results.successful + results.failed
    /\ results.successful + results.failed = Len(statements)

\* C1 amended: total_statements is the number of statements split, and
\* successful + failed is that number less the statements with a leading
\* SELECT and a LIMIT, which are counted in neither.
C1_TotalLessDisplayQueries ==
  Returned =>
    /\ results.total_statements = Len(statements)
    /\ results.successful + results.failed = Len(statements) - Cardinality(DisplayAt)

C1_Witness ==
  /\ Returned
  /\ DisplayAt # {}
  /\ results.successful > 0
  /\ results.failed > 0

\* C2 as stated: a statement on which the client raised is recorded in
\* errors, every later statement is still submitted, and execute_setup
\* returns its report instead of raising.
C2_FailureRecordedRunContinues ==
  /\ raisedAt # {} => pc \in {"es_loop", "es_wait", "es_returned"}
  /\ Returned =>
       \A n \in raisedAt :
         /\ n \in ErrorNumberSet
         /\ \A m \in (n + 1)..Len(statements) : Submitted(m)

\* C2 amended: the failure is caught, every later statement is still
\* submitted and the report is returned; the failure is recorded in errors
\* unless the statement has a leading SELECT and a LIMIT, whose failure is
\* caught without being recorded.
C2_FailureCaughtRunContinues ==
  /\ raisedAt # {} => pc \in {"es_loop", "es_wait", "es_returned"}
  /\ Returned =>
       \A n \in raisedAt :
         /\ n \in ErrorNumberSet <=> ~SelectWithLimit(statements[n])
         /\ \A m \in (n + 1)..Len(statements) : Submitted(m)

C2_Witness ==
  /\ Returned
  /\ \E n \in raisedAt : n < Len(statements) /\ n \in ErrorNumberSet
  /\ \E n \in raisedAt : n < Len(statements) /\ n \notin ErrorNumberSet

\* C3: the script statements handed to the client are the splitter's list in
\* source order, each once, none skipped or retried, and a statement is
\* handed over only when every statement before it has returned or raised.
C3_SubmittedInOrderOnce ==
  /\ Len(ScriptCalls) <= Len(statements)
  /\ \A m \in 1..Len(ScriptCalls) : ScriptCalls[m].q = statements[m]
  /\ pc = "es_wait" => Len(ScriptCalls) = i
  /\ pc = "es_loop" => Len(ScriptCalls) = i - 1
  /\ Returned => Len(ScriptCalls) = Len(statements)

C3_Witness ==
  /\ Returned
  /\ Len(statements) >= 3
  /\ 2 \in raisedAt
  /\ statements[1] # statements[2]
  /\ statements[2] # statements[3]

\* C4 as stated: with n statements of which those in F fail, the report has
\* total n, successful n - |F|, failed |F|, and one error entry per
\* statement of F, ascending, numbered by 1-based position.
C4_CountsOfFailures ==
  Returned =>
    /\ results.total_statements = Len(statements)
    /\ results.successful = Len(statements) - Cardinality(raisedAt)
    /\ results.failed = Cardinality(raisedAt)
    /\ Len(results.errors) = Cardinality(raisedAt)
    /\ ErrorNumberSet = raisedAt
    /\ \A e \in 1..(Len(results.errors) - 1) : ErrorNumbers[e] < ErrorNumbers[e + 1]

\* C4 amended: the same with the statements that have a leading SELECT and a
\* LIMIT left out of successful, failed and errors.
C4_CountsOfFailuresLessDisplay ==
  Returned =>
    LET counted == (1..Len(statements)) \ DisplayAt
        F == raisedAt \ DisplayAt
    IN  /\ results.total_statements = Len(statements)
        /\ results.successful = Cardinality(counted) - Cardinality(F)
        /\ results.failed = Cardinality(F)
        /\ Len(results.errors) = Cardinality(F)
        /\ ErrorNumberSet = F
        /\ \A e \in 1..(Len(results.errors) - 1) : ErrorNumbers[e] < ErrorNumbers[e + 1]

C4_Witness ==
  /\ Returned
  /\ Len(statements) = MaxLines
  /\ DisplayAt = {1}
  /\ raisedAt = {1, 3}
  /\ results.total_statements = MaxLines
  /\ results.successful = MaxLines - 2
  /\ results.failed = 1
  /\ ErrorNumbers = <<3>>

\* The step in which the client raises on statement i.
RaiseStep == pc = "es_wait" /\ raisedAt' # raisedAt

\* The report counts the failure of statement i.
FailureCounted ==
  /\ results'.failed = results.failed + 1
  /\ results'.successful = results.successful
  /\ results'.total_statements = results.total_statements
  /\ Len(results'.errors) = Len(results.errors) + 1
  /\ SubSeq(results'.errors, 1, Len(results.errors)) = results.errors
  /\ results'.errors[Len(results'.errors)].statement_number = i

\* C5 as stated: a failure of a statement with a leading SELECT or SHOW and
\* a LIMIT changes nothing in the report; any other failure is counted.
C5_QueryWithLimitAbsorbed ==
  [][RaiseStep =>
       IF QueryWithLimit(statements[i]) THEN results' = results ELSE FailureCounted]_vars

\* C5 amended: only a leading SELECT makes a statement with a LIMIT
\* display-only; a SHOW with a LIMIT is counted like every other statement.
C5_SelectWithLimitAbsorbed ==
  [][RaiseStep =>
       IF SelectWithLimit(statements[i]) THEN results' = results ELSE FailureCounted]_vars

C5_Witness ==
  /\ Returned
  /\ \E n \in raisedAt : SelectWithLimit(statements[n]) /\ n \notin ErrorNumberSet
  /\ \E n \in raisedAt :
       /\ QueryWithLimit(statements[n])
       /\ ~SelectWithLimit(statements[n])
       /\ n \in ErrorNumberSet

(***************************************************************************)
(* Properties of the entry point, checked under Spec.                      *)
(***************************************************************************)
\* main() has ended.
Exited == pc = "exited"

\* The calls verify_setup made on the client.
VerifyCalls == SelectSeq(calls, LAMBDA c : c.by \in {"verify", "verify_setup"})

\* The calls that submitted SQL of any kind.
ExecCalls == SelectSeq(calls, LAMBDA c : c.op \in {"execute_query", "execute_update"})

\* execute_setup is running or has just returned.
InExecuteSetup ==
  pc \in {"es_connect", "es_read", "es_drop", "es_loop", "es_wait", "es_returned", "es_raised"}

\* The first connect() of the run was made and returned True: only then is
\* the cursor set.
ConnectSucceeded == calls # <<>> /\ calls[1].op = "connect" /\ sf.cursor # None

\* The first connect() of the run was made and returned False.
ConnectFailed == calls # <<>> /\ calls[1].op = "connect" /\ sf.cursor = None

\* C6: in the setup workflow verify_setup runs after execute_setup exactly
\* when the report has failed = 0; with failed > 0 the run ends with no
\* verification query, and execute_setup itself starts no verification.
C6_VerifyIffNothingFailed ==
  ~args.verify_only =>
    /\ InExecuteSetup => verification = NoReport /\ VerifyCalls = <<>>
    /\ (results # NoReport /\ results.failed > 0) => verification = NoReport /\ VerifyCalls = <<>>
    /\ (Exited /\ exc = None /\ results # NoReport) =>
         (verification # NoReport <=> results.failed = 0)

C6_Witness ==
  /\ Exited
  /\ ~args.verify_only
  /\ results # NoReport
  /\ results.failed > 0
  /\ results.successful > 0
  /\ verification = NoReport

\* C7: a run on which connect() succeeded ends with the connection closed
\* by close(), on every exit path, and leaves no session open.
C7_ClosedOnEveryExit ==
  (Exited /\ ConnectSucceeded) =>
    /\ sf.conn = "closed"
    /\ sf.cursor = "closed"
    /\ leaked = 0
    /\ calls[Len(calls)].op = "close"

C7_Witness ==
  /\ Exited
  /\ ConnectSucceeded
  /\ results # NoReport
  /\ results.failed > 0
  /\ sf.conn = "closed"
  /\ calls[Len(calls)] = Call("close", "main", <<>>)

\* C8: when the initial connect() fails the run ends, in every mode, with a
\* non-zero exit code, with no statement or verification query attempted
\* and with no run report and no verification report.
C8_ConnectFailureIsFatal ==
  ConnectFailed =>
    /\ ExecCalls = <<>>
    /\ results = NoReport
    /\ verification = NoReport
    /\ pc \in {"es_raised", "exited"}
    /\ Exited => exit_code = 1

\* C9 as stated: when the script file is missing, the error is raised
\* before any connect() call has been made.
C9_NoConnectBeforeScriptNotFound ==
  exc = "FileNotFoundError" => \A c \in 1..Len(calls) : calls[c].op # "connect"

\* C9 amended: the script-not-found error is raised only after connect() has
\* succeeded; the connection is closed before the error leaves
\* execute_setup, no statement has been submitted, no report exists, and the
\* entry point exits with a non-zero code.
C9_ScriptNotFoundAfterConnect ==
  exc = "FileNotFoundError" =>
    /\ calls = <<Call("connect", "execute_setup", <<>>), Call("close", "execute_setup", <<>>)>>
    /\ sf.conn = "closed"
    /\ sf.cursor = "closed"
    /\ results = NoReport
    /\ verification = NoReport
    /\ Exited => exit_code = 1

C9_Witness ==
  /\ Exited
  /\ exc = "FileNotFoundError"
  /\ exit_code = 1

\* C10: when the config file does not exist the entry point ends with a
\* non-zero exit code.
C10_MissingConfigExitsNonZero ==
  (Exited /\ ~config_exists) => exit_code # 0

(***************************************************************************)
(* Exit code, teardown and the command-line flags.                         *)
(***************************************************************************)
\* The calls that carried drop statements, in the order they were made.
DropCalls == SelectSeq(calls, LAMBDA c : c.by = "drop")

\* The drop statements up to number n, each as an execute_update call.
DropsUpTo(n) == [m \in 1..n |-> Call("execute_update", "drop", drop_statements[m])]

\* C11 (under Spec): once the connection was made and the script read, so
\* that execute_setup returned a report, the entry point ends with exit
\* code 0 whatever the number of failed statements, and no exception left
\* execute_setup.
C11_StatementFailuresExitZero ==
  (Exited /\ results # NoReport) => (exit_code = 0 /\ exc = None)

\* Every statement of a two-statement script failed and the process ended
\* with exit code 0.
C11_Witness ==
  /\ Exited
  /\ results # NoReport
  /\ Len(statements) = 2
  /\ results.failed = 2
  /\ exit_code = 0

\* C12 (under SpecExec): with drop_existing the seven drop statements are
\* submitted in order through execute_update whether or not earlier ones
\* raised; a drop that raised never ends execute_setup with an exception;
\* and the report holds nothing about the drops: its total is the number of
\* script statements and every failure it counts is a script statement on
\* which the client raised.
C12_DropsAllSubmittedAndSwallowed ==
  /\ pc = "es_drop" => DropCalls = DropsUpTo(j - 1)
  /\ (args.drop_existing /\ results # NoReport) => DropCalls = DropsUpTo(NumDrops)
  /\ dropRaised => (pc # "es_raised" /\ exc = None)
  /\ results # NoReport =>
       /\ results.total_statements = Len(statements)
       /\ results.failed = Len(results.errors)
       /\ ErrorNumberSet \subseteq raisedAt
       /\ results.successful + results.failed <= i - 1

\* A drop raised, all seven were submitted, and the run returned a report
\* with no failure in it.
C12_Witness ==
  /\ Returned
  /\ dropRaised
  /\ Len(DropCalls) = NumDrops
  /\ statements # <<>>
  /\ results.failed = 0
  /\ results.successful = Len(statements)

\* C13 (under Spec): a drop statement is submitted only when --drop-existing
\* was given and the answer to the prompt was yes (in any letter case); any
\* other answer ends the run at once with no call on the client at all, so
\* no connect, no drop and no script statement; without --drop-existing the
\* prompt is not shown and no drop statement is submitted.
C13_DropsOnlyWhenConfirmed ==
  /\ DropCalls # <<>> => (args.drop_existing /\ response # <<>> /\ lower(response[1]) = YES)
  /\ (response # <<>> /\ lower(response[1]) # YES) =>
       (Exited /\ calls = <<>> /\ statements = <<>> /\ results = NoReport)
  /\ ~args.drop_existing => (DropCalls = <<>> /\ response = <<>>)
  /\ Len(response) <= 1

\* The answer was no and the run ended with nothing done.
C13_Witness ==
  /\ Exited
  /\ args.drop_existing
  /\ response = << <<"n","o">> >>
  /\ calls = <<>>

\* C17 (under Spec): with --verify-only the script is never read, so there
\* are no statements and no run report; no call submits a drop or script
\* statement, none is an execute_update, and every call on the client is
\* one of verify_setup: its connect, its queries, its close.
C17_VerifyOnlySkipsExecution ==
  args.verify_only =>
    /\ ~InExecuteSetup
    /\ pc # "main_confirm"
    /\ statements = <<>>
    /\ sql_content = <<>>
    /\ results = NoReport
    /\ \A n \in 1..Len(calls) :
         /\ calls[n].by \in {"verify", "verify_setup"}
         /\ calls[n].op \in {"connect", "execute_query", "close"}

\* A verify-only run that connected, counted the rows of a table and closed.
C17_Witness ==
  /\ Exited
  /\ args.verify_only
  /\ verification # NoReport
  /\ verification.data_counts # <<>>
  /\ calls[1].op = "connect"
  /\ calls[Len(calls)].op = "close"

(***************************************************************************)
(* Properties of verify_setup, checked under SpecVerify.                   *)
(***************************************************************************)
VerifyReturned == pc = "vs_returned"

\* The four listing queries, in the order of the checks.
ListingQueries ==
  << <<"SHOW DATABASES">>,
     <<"SHOW SCHEMAS IN DATABASE FEAT_DB">>,
     <<"SHOW TABLES IN SCHEMA FEAT_DB.FEAT_SCHEMA">>,
     <<"SHOW VIEWS IN SCHEMA FEAT_DB.FEAT_SCHEMA">> >>

IsListing(q) == \E n \in 1..Len(ListingQueries) : ListingQueries[n] = q

\* The listing queries submitted so far, in order.
ListingsAsked ==
  LET asked == SelectSeq(calls, LAMBDA c : c.by = "verify" /\ IsListing(c.q))
  IN  [n \in 1..Len(asked) |-> asked[n].q]

\* The names of a manifest list.
Names(list) == { list[n] : n \in 1..Len(list) }

\* Count queries were submitted for exactly these names.
CountsAsked ==
  { n \in Names(tables_to_check) \cup Names(views_to_check) :
      \E c \in 1..Len(calls) : calls[c].by = "verify" /\ calls[c].q = count_query(n) }

\* C14: verify_setup has no path on which it raises; when it returns, each
\* of the four listing queries has been submitted once, in order, whatever
\* became of the earlier ones; a category whose listing failed has an empty
\* mapping and no count, and a table or view category that follows a failed
\* listing is recorded name by name as usual.
C14_ChecksIndependent ==
  /\ pc \in {"vs_start", "vs_db", "vs_schema", "vs_tables", "vs_table", "vs_views",
             "vs_view", "vs_finally", "vs_returned"}
  /\ exc = None
  /\ VerifyReturned =>
       /\ ListingsAsked = ListingQueries
       /\ verification.database_exists \in BOOLEAN
       /\ verification.schema_exists \in BOOLEAN
       /\ DOMAIN verification.tables = {} =>
            DOMAIN verification.data_counts \cap Names(tables_to_check) = {}
       /\ DOMAIN verification.views = {} =>
            DOMAIN verification.data_counts \cap Names(views_to_check) = {}
       /\ DOMAIN verification.data_counts \subseteq CountsAsked

\* The listing of tables failed on a working connection, and the views were
\* still listed, recorded and counted.
C14_Witness ==
  /\ VerifyReturned
  /\ verification.database_exists
  /\ verification.tables = <<>>
  /\ DOMAIN verification.views = Names(views_to_check)
  /\ latest_features \in DOMAIN verification.data_counts

\* The names of a list that were found to exist and have no count: their
\* count query failed.
CountFailed(list, marks) ==
  { n \in Names(list) \cap DOMAIN marks : marks[n] /\ n \notin DOMAIN verification.data_counts }

\* A failed count leaves every other name of the list recorded, and counted
\* or asked for its count when it exists.
OthersStillChecked(list, marks) ==
  CountFailed(list, marks) # {} =>
    /\ Names(list) \subseteq DOMAIN marks
    /\ \A n \in Names(list) : marks[n] => n \in CountsAsked

\* C15: when the count query of a table or view fails, its count is absent
\* and every other name of the same manifest list still has its existence
\* recorded and its own count queried.
C15_CountFailureIsLocal ==
  VerifyReturned =>
    /\ OthersStillChecked(tables_to_check, verification.tables)
    /\ OthersStillChecked(views_to_check, verification.views)

\* What the report holds about a manifest list when its loop is left, given
\* the listing: a listed name with a count is marked existing, a name that
\* is not listed is marked not existing and has no count, and only names of
\* the manifest are reported.
ReportedAsListed(list, listed, marks, counts) ==
  /\ DOMAIN marks \subseteq Names(list)
  /\ \A n \in Names(list) :
       IF upper(n) \in listed
         THEN n \in DOMAIN counts => (n \in DOMAIN marks /\ marks[n] /\ counts[n] \in CountValues)
         ELSE n \in DOMAIN marks /\ ~marks[n] /\ n \notin DOMAIN counts

\* C16: when the check of the tables (of the views) is over, each manifest
\* name that is listed and counted is reported as existing with the count
\* returned, each manifest name that is not listed is reported as not
\* existing with no count, and no other name is reported.
C16_ReportMatchesCatalog ==
  [][ /\ (pc = "vs_table" /\ pc' = "vs_views") =>
           ReportedAsListed(tables_to_check, existing,
                            verification'.tables, verification'.data_counts)
      /\ (pc = "vs_view" /\ pc' = "vs_finally") =>
           ReportedAsListed(views_to_check, existing,
                            verification'.views, verification'.data_counts)
      /\ DOMAIN verification'.data_counts \subseteq
           Names(tables_to_check) \cup Names(views_to_check) ]_vars

(***************************************************************************)
(* Properties of split_sql_statements, checked under SpecSplit.            *)
(***************************************************************************)
SplitDone == pc = "split_done"

\* The text of a script that is neither in a block comment nor in a line
\* comment, read as SQL reads it: a quote opens a string literal that runs
\* to the next quote, and comment markers inside a literal are text.
RECURSIVE CodeText(_, _)
CodeText(s, mode) ==
  IF s = <<>> THEN <<>>
  ELSE IF mode = "code"
    THEN IF startswith(s, BlockOpen) THEN CodeText(suffix(s, 2), "block")
         ELSE IF startswith(s, LineComment) THEN CodeText(suffix(s, 2), "line")
         ELSE <<Head(s)>> \o CodeText(Tail(s), IF Head(s) = "'" THEN "string" ELSE "code")
  ELSE IF mode = "string"
    THEN <<Head(s)>> \o CodeText(Tail(s), IF Head(s) = "'" THEN "code" ELSE "string")
  ELSE IF mode = "block"
    THEN IF startswith(s, BlockClose) THEN <<" ">> \o CodeText(suffix(s, 2), "code")
         ELSE CodeText(Tail(s), "block")
  ELSE IF Head(s) = "\n" THEN <<"\n">> \o CodeText(Tail(s), "code")
       ELSE CodeText(Tail(s), "line")

\* Where the reading of a script ends: in code, or inside a comment or a
\* string literal that was never closed.
RECURSIVE EndMode(_, _)
EndMode(s, mode) ==
  IF s = <<>> THEN mode
  ELSE IF mode = "code"
    THEN IF startswith(s, BlockOpen) THEN EndMode(suffix(s, 2), "block")
         ELSE IF startswith(s, LineComment) THEN EndMode(suffix(s, 2), "line")
         ELSE EndMode(Tail(s), IF Head(s) = "'" THEN "string" ELSE "code")
  ELSE IF mode = "string"
    THEN EndMode(Tail(s), IF Head(s) = "'" THEN "code" ELSE "string")
  ELSE IF mode = "block"
    THEN IF startswith(s, BlockClose) THEN EndMode(suffix(s, 2), "code")
         ELSE EndMode(Tail(s), "block")
  ELSE EndMode(Tail(s), IF Head(s) = "\n" THEN "code" ELSE "line")

\* Every block comment and string literal of the script is closed.
WellFormed(s) == EndMode(s, "code") \in {"code", "line"}

\* The texts of a list, one after the other.
RECURSIVE Flatten(_)
Flatten(texts) ==
  IF texts = <<>> THEN <<>> ELSE Head(texts) \o <<" ">> \o Flatten(Tail(texts))

\* A text without its white space and semicolons.
Squash(s) == SelectSeq(s, LAMBDA c : c \notin Whitespace \cup {"\n", ";"})

HasChar(s, c) == \E n \in 1..Len(s) : s[n] = c

\* C18: for a script whose comments and literals are all closed, the
\* emitted statements, one after the other, are the code of the script
\* (what is left of it without its comments and blank lines), with nothing
\* lost, doubled or moved; compared up to white space and the semicolons
\* that end statements.
C18_StatementsReproduceCode ==
  (SplitDone /\ WellFormed(sql_content)) =>
    Squash(Flatten(statements)) = Squash(CodeText(sql_content, "code"))

\* C19: when every y of the script lies inside a block comment, no emitted
\* statement holds a y.
C19_NoBlockCommentText ==
  (SplitDone /\ ~HasChar(CodeText(sql_content, "code"), "y")) =>
    \A n \in 1..Len(statements) : ~HasChar(statements[n], "y")

\* The positions (from 0) of the markers of a line.
Markers(line) ==
  { p \in 0..(Len(line) - 2) : line[p + 1] = "-" /\ line[p + 2] = "-" }

\* A line cut as the rule on markers says: a marker after an odd number of
\* quotes stays with what follows it, the first marker after an even number
\* of quotes goes with the rest of the line.
CutAtComment(line) ==
  LET cuts == { p \in Markers(line) : count(prefix(line, p), "'") % 2 = 0 }
  IN  IF cuts = {} THEN line
      ELSE prefix(line, CHOOSE p \in cuts : \A q \in cuts : p <= q)

\* C20: the emitted statements hold, of every line left by the first loop,
\* the text up to its first marker that follows an even number of quotes,
\* and so every marker that follows an odd number of quotes with the text
\* after it; compared up to white space and semicolons.
C20_EveryMarkerByQuoteParity ==
  SplitDone =>
    Squash(Flatten(statements))
      = Squash(Flatten([n \in 1..Len(lines) |-> CutAtComment(lines[n])]))

\* The lines the second loop buffers: each line left by the first loop,
\* without its line comment and trimmed, when something is left of it.
Kept ==
  SelectSeq([n \in 1..Len(lines) |-> strip(strip_line_comment(lines[n]))],
            LAMBDA l : l # <<>>)

\* The buffered lines that end with a semicolon.
EndLines == { n \in 1..Len(Kept) : Kept[n][Len(Kept[n])] = ";" }

\* The buffered lines from the one after the last semicolon-ended line
\* before n, up to n.
Segment(n) ==
  LET earlier == { e \in EndLines : e < n }
      first == IF earlier = {} THEN 1
               ELSE 1 + CHOOSE e \in earlier : \A f \in earlier : f <= e
  IN  SubSeq(Kept, first, n)

\* What is buffered when the script ends.
Trailing ==
  IF Kept = <<>> \/ Len(Kept) \in EndLines THEN <<>> ELSE Segment(Len(Kept))

\* The text that ends at buffered line n, if any does.
Piece(n) ==
  IF n \in EndLines THEN strip(rstrip_semicolon(join_space(Segment(n))))
  ELSE IF n = Len(Kept) THEN join_space(Trailing)
  ELSE <<>>

\* C21: statements end exactly at the lines whose comment-stripped, trimmed
\* text ends with a semicolon: the emitted statements are, in order, the
\* runs of lines between such lines (and the run left at the end), so a
\* semicolon inside a line ends nothing, and there are never more
\* statements than such lines plus one.
C21_BoundaryAtLineEndingSemicolon ==
  SplitDone =>
    /\ statements = SelectSeq([n \in 1..Len(Kept) |-> Piece(n)], LAMBDA t : t # <<>>)
    /\ Len(statements) <= Cardinality(EndLines) + 1

\* A line with a semicolon in its middle, followed by a statement: the two
\* lines are emitted as one statement that holds the inner semicolon.
C21_Witness ==
  /\ SplitDone
  /\ sql_content = RawMidSemicolon \o <<"\n">> \o RawStatement
  /\ statements = << <<"j",";"," ","k"," ","a">> >>

C26_WitnessEmpty ==
  /\ SplitDone
  /\ sql_content = RawLineComment \o <<"\n">>
  /\ statements = <<>>

\* The first loop is over.
BlocksDone == pc \in {"split_lines", "split_done"}

\* The lines of the raw script.
RawLines == split_newline(sql_content)

\* The raw lines that open a block comment and do not close it.
Openers ==
  { n \in 1..Len(RawLines) :
      contains(RawLines[n], BlockOpen) /\ ~contains(RawLines[n], BlockClose) }

Least(S) == CHOOSE n \in S : \A m \in S : n <= m

\* The raw lines after the first opener that hold an end marker.
Closers ==
  IF Openers = {} THEN {}
  ELSE { n \in (Least(Openers) + 1)..Len(RawLines) : contains(RawLines[n], BlockClose) }

C25_UnmatchedStartRunsToEndMarker ==
  (BlocksDone /\ Openers # {}) =>
    IF Closers = {} THEN Len(lines) = Least(Openers) - 1
                    ELSE Len(lines) >= Least(Openers)

\* C29: when a block comment opens on one line and ends on a later one, the
\* text before the opening marker and the text after the end marker are
\* each part of an emitted statement.
C29_TextAroundCommentKept ==
  (SplitDone /\ Closers # {} /\ ~contains(RawLines[Least(Closers)], BlockOpen)) =>
    LET first == RawLines[Least(Openers)]
        last == RawLines[Least(Closers)]
        ahead == strip(prefix(first, find(first, BlockOpen)))
        behind == strip(rstrip_semicolon(strip(suffix(last, find(last, BlockClose) + 2))))
    IN  /\ ahead # <<>> => \E n \in 1..Len(statements) : contains(statements[n], ahead)
        /\ behind # <<>> => \E n \in 1..Len(statements) : contains(statements[n], behind)

(***************************************************************************)
(* Classification and the order of teardown, checked under SpecExec.       *)
(***************************************************************************)
\* The trimmed text begins, in any letter case, with the letters of word.
LeadsWith(statement, word) ==
  LET text == strip(statement)
  IN  /\ Len(text) >= Len(word)
      /\ \A n \in 1..Len(word) : upper_char(text[n]) = word[n]

\* C22: when statement i has just been handed to the client, the call
\* carries the statement unchanged and is an execute_query exactly when the
\* trimmed statement begins with SELECT or SHOW in any letter case, else an
\* execute_update; nothing else of the state depends on which it is.
C22_QueryIffLeadingSelectOrShow ==
  pc = "es_wait" =>
    /\ calls[Len(calls)] =
         Call(IF LeadsWith(statements[i], SELECT) \/ LeadsWith(statements[i], SHOW)
                THEN "execute_query" ELSE "execute_update",
              "script", statements[i])
    /\ results.successful + results.failed <= i - 1
    /\ results.total_statements = Len(statements)

\* A select in lower case and a SHOW went through execute_query, an INSERT
\* through execute_update, and all that the report counts succeeded.
C22_Witness ==
  /\ Returned
  /\ Len(statements) = 4
  /\ statements[1] = rstrip_semicolon(LineDisplay)
  /\ ScriptCalls[1].op = "execute_query"
  /\ statements[2] = rstrip_semicolon(LineShowLimit)
  /\ ScriptCalls[2].op = "execute_query"
  /\ statements[3] = rstrip_semicolon(LineInsert)
  /\ ScriptCalls[3].op = "execute_update"
  /\ statements[4] = rstrip_semicolon(LineSelect)
  /\ ScriptCalls[4].op = "execute_query"
  /\ results.successful = 3

\* The drop statement of an object.
DropView(name) == <<"DROP VIEW IF EXISTS FEAT_DB.FEAT_SCHEMA." \o name>>
DropTable(name) == <<"DROP TABLE IF EXISTS FEAT_DB.FEAT_SCHEMA." \o name>>
DropSchema == <<"DROP SCHEMA IF EXISTS FEAT_DB.FEAT_SCHEMA">>
DropDatabase == <<"DROP DATABASE IF EXISTS FEAT_DB">>

ViewNames == {"latest_features", "customer_agg_30d"}
TableNames == {"feature_store", "tx_cleaned", "customer_transactions"}

\* The place among the drops made of the one that carried q, 0 when there
\* is none or more than one.
PlaceOf(made, q) ==
  LET at == { n \in 1..Len(made) : made[n].q = q }
  IN  IF Cardinality(at) = 1 THEN CHOOSE n \in at : TRUE ELSE 0

Before(made, q, r) == PlaceOf(made, q) > 0 /\ PlaceOf(made, q) < PlaceOf(made, r)

\* C23: every drop comes after the connect that opens the log of calls and
\* before every script statement; and once the drops are done, each was
\* submitted once, a view before every table it is built from (the view
\* latest_features, whose definition is in the script, before every
\* table), every table and view before the schema, and the schema before
\* the database.
C23_DropOrder ==
  LET made == DropCalls
  IN  /\ made # <<>> =>
           /\ calls[1].op = "connect"
           /\ \A n \in 1..Len(made) : calls[n + 1] = made[n]
           /\ \A n \in (Len(made) + 2)..Len(calls) : calls[n].by = "script"
      /\ (args.drop_existing /\ results # NoReport) =>
           /\ Len(made) = NumDrops
           /\ \A t \in TableNames : Before(made, DropView("latest_features"), DropTable(t))
           /\ \A d \in reads_from :
                d[1] \in ViewNames => Before(made, DropView(d[1]), DropTable(d[2]))
           /\ \A v \in ViewNames : Before(made, DropView(v), DropSchema)
           /\ \A t \in TableNames : Before(made, DropTable(t), DropSchema)
           /\ Before(made, DropSchema, DropDatabase)

\* The seven drops were submitted and script statements after them.
C23_Witness ==
  /\ Returned
  /\ args.drop_existing
  /\ Len(DropCalls) = NumDrops
  /\ Len(ScriptCalls) >= 2
  /\ calls[2].by = "drop"

(***************************************************************************)
(* Reconnection (under SpecVerify) and termination (under SpecLive).       *)
(***************************************************************************)
\* verify_setup is making its checks.
Checking == pc \in {"vs_db", "vs_schema", "vs_tables", "vs_table", "vs_views", "vs_view"}

\* C28: while verify_setup makes its checks, either it began by calling
\* connect() or the connection it was given is open: the checks never run
\* on a connection that close() has closed.
C28_ReconnectsWhenNotOpen ==
  Checking =>
    \/ calls # <<>> /\ calls[1] = Call("connect", "verify_setup", <<>>)
    \/ sf.conn = "open" /\ sf.cursor = "open"

\* The state of the runner a position of the code belongs to: 0 Idle,
\* 1 Connected, 3 Split (Stripped, 2, lies inside the step that reads and
\* splits), 4 Executing, 5 Executed, 6 Verifying, 7 the end of the run.
Stage ==
  CASE pc \in {"main", "main_confirm", "es_connect"} -> 0
    [] pc = "es_read" -> 1
    [] pc = "es_drop" -> 3
    [] pc \in {"es_loop", "es_wait"} -> 4
    [] pc = "es_returned" -> 5
    [] pc \in {"vs_start", "vs_finally", "vs_returned"} \/ Checking -> 6
    [] pc \in {"es_raised", "exited"} -> 7

EndedAsTheCodeEnds ==
  IF Exited
    THEN \/ exit_code = 0 /\ exc = None
         \/ exit_code = 1 /\ exc = "Exception" /\ ConnectFailed /\ results = NoReport
         \/ exit_code = 1 /\ exc = "FileNotFoundError" /\ ConnectSucceeded
              /\ results = NoReport
    ELSE TRUE

\* Verification follows a setup only when its report has no failure.
VerifyingOnlyAfterSuccess ==
  IF Stage = 6
    THEN args.verify_only \/ (results # NoReport /\ results.failed = 0)
    ELSE TRUE

====
